---- MODULE Spec2Model ----
(***************************************************************************)
(* Speed-test client (src/client.py) and server (src/server.py).          *)
(*                                                                         *)
(* Datagrams are modelled by their bytes.  A datagram is a record          *)
(*   [hdr |-> sequence of bytes, fill |-> number of trailing b'X' bytes]   *)
(* so that len(data) = Len(hdr) + fill.  The filler payload b'X' * n is    *)
(* never inspected by either side, so it is kept as its length n.          *)
(* The 32-bit magic cookie 0xabcddcba is kept as its four big-endian       *)
(* bytes; every other integer field is packed and unpacked arithmetically. *)
(* A float quotient n / d is kept as the pair <<n, d>>; a quotient with    *)
(* d = 0 is Python's ZeroDivisionError.                                    *)
(***************************************************************************)
EXTENDS Integers, Sequences, FiniteSets, TLC

(***************************************************************************)
(* Bounds of the model.                                                    *)
(***************************************************************************)
MaxRounds == 2       \* rounds of the client's main loop that are explored
MaxTcp == 1          \* largest "number of TCP connections" entered
MaxUdp == 2          \* largest "number of UDP connections" entered
MaxDup == 1          \* datagrams the network may duplicate, per UDP transfer
MaxDur == 1          \* largest end_time - start_time, in clock ticks
MaxShortReads == 1   \* short reads a TCP receiver may see, per transfer

(***************************************************************************)
(* Program constants.                                                      *)
(***************************************************************************)
segment_size == 1024
chunk_size == 65536
client_recv_size == 4096
server_recv_size == 1024
payload_header_size == 21
offer_size == 9
msg_type_offer == 2
msg_type_request == 3
msg_type_payload == 4
magic_cookie == <<171, 205, 220, 186>>      \* 0xabcddcba, big-endian

None == -1           \* Python's None for an integer that is not set yet
NL == 10             \* "\n"

Min(a, b) == IF a < b THEN a ELSE b

(***************************************************************************)
(* struct.pack / struct.unpack with '!' (network order, no padding).       *)
(***************************************************************************)
RECURSIVE BE(_, _)
\* the n low bytes of x, big-endian
BE(x, n) == IF n = 0 THEN <<>> ELSE Append(BE(x \div 256, n - 1), x % 256)

RECURSIVE FromBE(_)
FromBE(bs) ==
    IF bs = <<>> THEN 0
    ELSE FromBE(SubSeq(bs, 1, Len(bs) - 1)) * 256 + bs[Len(bs)]

\* a signed char: format 'b'
SignedByte(b) == IF b >= 128 THEN b - 256 ELSE b

Dgram(h, n) == [hdr |-> h, fill |-> n]
DLen(d) == Len(d.hdr) + d.fill

\* PackOffer in native alignment ('IbHH'): a pad byte before the first port
PackOfferNative(magic, type, u, t) ==
    Dgram(magic \o BE(type, 1) \o <<0>> \o BE(u, 2) \o BE(t, 2), 0)

\* struct.pack('!IbHH', magic, type, udp_port, tcp_port)
PackOffer(magic, type, u, t) ==
    Dgram(magic \o BE(type, 1) \o BE(u, 2) \o BE(t, 2), 0)

\* struct.unpack('!IbHH', data), defined for len(data) = 9
UnpackOffer(d) ==
    [magic_cookie |-> SubSeq(d.hdr, 1, 4),
     msg_type |-> SignedByte(d.hdr[5]),
     udp_port |-> FromBE(SubSeq(d.hdr, 6, 7)),
     tcp_port |-> FromBE(SubSeq(d.hdr, 8, 9))]

\* struct.pack('!IbQ', magic, 0x3, file_size)
PackRequest(magic, type, size) ==
    Dgram(magic \o BE(type, 1) \o BE(size, 8), 0)

\* struct.unpack('!IbQ', data): struct.error unless len(data) = 13
UnpackRequest(d) ==
    IF DLen(d) # 13 \/ d.fill # 0 THEN [error |-> TRUE]
    ELSE [error |-> FALSE,
          magic_cookie |-> SubSeq(d.hdr, 1, 4),
          msg_type |-> SignedByte(d.hdr[5]),
          file_size |-> FromBE(SubSeq(d.hdr, 6, 13))]

\* struct.pack('!IbQQ', magic, 0x4, total_segments, i) + b'X' * remaining
PackPayload(magic, type, total, i, remaining) ==
    Dgram(magic \o BE(type, 1) \o BE(total, 8) \o BE(i, 8), remaining)

\* struct.unpack('!IbQQ', data[:21]), defined for len(data) >= 21
UnpackPayloadHeader(d) ==
    [magic_cookie |-> SubSeq(d.hdr, 1, 4),
     msg_type |-> SignedByte(d.hdr[5]),
     total_segs |-> FromBE(SubSeq(d.hdr, 6, 13)),
     current_seg |-> FromBE(SubSeq(d.hdr, 14, 21))]

(***************************************************************************)
(* f"{file_size}\n".encode() and int(data.decode().strip()).               *)
(***************************************************************************)
RECURSIVE Digits(_)
Digits(n) == IF n < 10 THEN <<48 + n>> ELSE Append(Digits(n \div 10), 48 + (n % 10))

EncodeSizeLine(n) == Append(Digits(n), NL)

RECURSIVE Strip(_)
\* str.strip() on a string whose only white space is a trailing "\n"
Strip(s) == IF s # <<>> /\ s[Len(s)] = NL THEN Strip(SubSeq(s, 1, Len(s) - 1)) ELSE s

RECURSIVE ParseDigits(_)
ParseDigits(s) ==
    IF s = <<>> THEN 0
    ELSE ParseDigits(SubSeq(s, 1, Len(s) - 1)) * 10 + (s[Len(s)] - 48)

\* int(s): ValueError (None) on the empty string or a non-digit
ParseInt(s) ==
    IF s = <<>> \/ \E i \in 1..Len(s) : s[i] < 48 \/ s[i] > 57 THEN None
    ELSE ParseDigits(s)

\* a / b in Python: the quotient as a fraction; ok = FALSE is ZeroDivisionError
Divide(a, b) == [ok |-> b # 0, num |-> a, den |-> b]
\* a quotient that was never computed
NoQuot == [ok |-> FALSE, num |-> 0, den |-> 0]

\* Truthy that takes None for a number other than zero
TruthyNotZero(x) == x # 0

\* `if x:` on an int-or-None
Truthy(x) == x # None /\ x # 0

(***************************************************************************)
(* State.                                                                  *)
(***************************************************************************)
VARIABLES
    state,          \* client: self.state
    running,        \* client: self.running
    file_size,      \* client: self.file_size
    statistics,     \* client: self.statistics
    main_pc,        \* client: position of the main thread in start()
    data,           \* client: the datagram _discover_server received last
    round,          \* client: rounds started so far (calls of _run_speed_test)
    tcp_threads,    \* client: the _run_tcp_test threads of the current round
    udp_threads,    \* client: the _run_udp_test threads of the current round
    report,         \* client: what _print_statistics printed last
    udp_socket,     \* client: self.udp_socket: "none", "bound", "unbound" or "closed"
    srv_running,    \* server: self.running
    srv_sockets,    \* server: "none", "open" or "closed" (udp_socket and tcp_socket)
    ports,          \* server: <<self.udp_port, self.tcp_port>>
    srv_pc,         \* server: position of the main thread in start() and stop()
    broadcast,      \* server: the _broadcast_offer thread
    udp_handlers,   \* server: the _handle_udp_speed_test threads, by requesting transfer
    tcp_handlers,   \* server: the _handle_tcp_client threads, by connection
    offer_net,      \* network: offers broadcast on the offer port
    udp_req,        \* network: request datagrams in flight to the server, by transfer
    udp_resp,       \* network: payload datagrams in flight to the client, by transfer
    tcp_conn        \* network: the TCP connections, by transfer

client_vars == <<state, running, file_size, statistics, main_pc, data, round,
                 tcp_threads, udp_threads, report, udp_socket>>
server_vars == <<srv_running, srv_sockets, ports, srv_pc, broadcast,
                 udp_handlers, tcp_handlers>>
net_vars == <<offer_net, udp_req, udp_resp, tcp_conn>>
vars == <<client_vars, server_vars, net_vars>>

\* random.randint(20000, 65000) for the two ports: the pairs explored
PortPairs == {<<20000, 65000>>}

EmptyStats ==
    [tcp_times |-> <<>>, udp_times |-> <<>>,
     udp_packets_received |-> 0, udp_packets_lost |-> 0]

NoDgram == Dgram(<<>>, 0)
NoReport == [avg_tcp |-> NoQuot, tcp_speed |-> NoQuot, avg_udp |-> NoQuot,
             loss_rate |-> NoQuot, error |-> FALSE]

\* the _broadcast_offer thread before start(): after_stop counts the offers it
\* sent after self.running became False
NoBroadcast == [pc |-> "none", after_stop |-> 0]

Init ==
    /\ state = "STARTUP"
    /\ running = TRUE
    /\ file_size = None
    /\ statistics = EmptyStats
    /\ main_pc = "loop"
    /\ data = NoDgram
    /\ round = 0
    /\ tcp_threads = <<>>
    /\ udp_threads = <<>>
    /\ report = NoReport
    /\ udp_socket = "none"
    /\ srv_running = FALSE
    /\ srv_sockets = "none"
    /\ ports \in PortPairs
    /\ srv_pc = "init"
    /\ broadcast = NoBroadcast
    /\ udp_handlers = <<>>
    /\ tcp_handlers = <<>>
    /\ offer_net = {}
    /\ udp_req = <<>>
    /\ udp_resp = <<>>
    /\ tcp_conn = <<>>


(***************************************************************************)
(* Client: the main thread (start, _discover_server, _run_speed_test).     *)
(***************************************************************************)
RECURSIVE Sum(_)
Sum(q) == IF q = <<>> THEN 0 ELSE q[1] + Sum(Tail(q))

\* statistics.mean(q) for a non-empty q, as a fraction
Mean(q) == Divide(Sum(q), Len(q))

NewTcpThread ==
    [pc |-> "start", server_port |-> None, received |-> 0, transfer_time |-> None, speed |-> NoQuot,
     short |-> 0, eof |-> FALSE, error |-> FALSE]

NewUdpThread ==
    [pc |-> "start", server_port |-> None, data |-> NoDgram,
     received_segments |-> {}, total_segments |-> None,
     loaded |-> 0, dups |-> 0, exit |-> "none", transfer_time |-> None,
     packets_lost |-> None, loss_rate |-> NoQuot, speed |-> NoQuot,
     error |-> FALSE]

\* after_stop counts what a handler sent after self.running became False
NewUdpHandler == [pc |-> "idle", data |-> NoDgram, file_size |-> 0,
                  total_segments |-> 0, i |-> 0, sent |-> 0, after_stop |-> 0]
NewTcpHandler == [pc |-> "idle", file_size |-> None, remaining |-> 0,
                  sent |-> 0, max_chunk |-> 0, after_stop |-> 0]
NewTcpConn == [open |-> FALSE, req |-> <<>>, avail |-> 0, closed |-> FALSE]

AllJoined ==
    /\ \A k \in DOMAIN tcp_threads : tcp_threads[k].pc = "done"
    /\ \A k \in DOMAIN udp_threads : udp_threads[k].pc = "done"

\* _get_file_size, state = LOOKING_FOR_SERVER, _setup_udp_socket (a new socket
\* replaces the one of the round before).
\* The thread lists are locals of _run_speed_test: what the model kept of the
\* round before (threads, their connections and handlers) is forgotten here.
GetFileSize(f) ==
    /\ main_pc = "loop"
    /\ running
    /\ file_size' = f
    /\ state' = "LOOKING_FOR_SERVER"
    /\ main_pc' = "discover"
    /\ udp_socket' = "bound"
    /\ data' = NoDgram
    /\ tcp_threads' = <<>>
    /\ udp_threads' = <<>>
    /\ tcp_handlers' = <<>>
    /\ udp_handlers' = <<>>
    /\ tcp_conn' = <<>>
    /\ udp_req' = <<>>
    /\ udp_resp' = <<>>
    /\ UNCHANGED <<running, statistics, round, report>>
    /\ UNCHANGED <<srv_running, srv_sockets, ports, srv_pc, broadcast, offer_net>>

\* _get_file_size, state = LOOKING_FOR_SERVER, then bind() raises in
\* _setup_udp_socket: the socket was created and assigned, nothing closes it;
\* `except Exception` of the main loop prints, sleeps and the loop goes on.
SetupFails(f) ==
    /\ main_pc = "loop"
    /\ running
    /\ file_size' = f
    /\ state' = "LOOKING_FOR_SERVER"
    /\ udp_socket' = "unbound"
    /\ main_pc' = "loop"
    /\ UNCHANGED <<running, statistics, data, round, tcp_threads, udp_threads, report>>
    /\ UNCHANGED <<server_vars, net_vars>>

\* the main loop ends and _cleanup runs: close() if the attribute exists
ExitLoop ==
    /\ main_pc = "loop"
    /\ ~running
    /\ main_pc' = "exited"
    /\ udp_socket' = IF udp_socket = "none" THEN "none" ELSE "closed"
    /\ UNCHANGED <<state, running, file_size, statistics, data, round,
                   tcp_threads, udp_threads, report>>
    /\ UNCHANGED <<server_vars, net_vars>>

\* select + recvfrom on the discovery socket: a broadcast offer or a foreign datagram
DiscoverRecv(d) ==
    /\ main_pc = "discover"
    /\ running /\ state = "LOOKING_FOR_SERVER"
    /\ data' = d
    /\ main_pc' = "offer_check"
    /\ UNCHANGED <<state, running, file_size, udp_socket, statistics, round,
                   tcp_threads, udp_threads, report>>
    /\ UNCHANGED <<server_vars, net_vars>>

\* the while condition of _discover_server fails
DiscoverExit ==
    /\ main_pc = "discover"
    /\ ~(running /\ state = "LOOKING_FOR_SERVER")
    /\ main_pc' = "loop"
    /\ UNCHANGED <<state, running, file_size, udp_socket, statistics, data, round,
                   tcp_threads, udp_threads, report>>
    /\ UNCHANGED <<server_vars, net_vars>>

\* ValidOffer with `len(data) == 9` weakened to `len(data) >= 9`
ValidOfferAtLeast(d) ==
    /\ DLen(d) >= offer_size
    /\ UnpackOffer(d).magic_cookie = magic_cookie
    /\ UnpackOffer(d).msg_type = msg_type_offer

\* len(data) == 9 and magic_cookie == self.magic_cookie and msg_type == 0x2
ValidOffer(d) ==
    /\ DLen(d) = offer_size
    /\ UnpackOffer(d).magic_cookie = magic_cookie
    /\ UnpackOffer(d).msg_type = msg_type_offer

\* the body of the discovery loop after recvfrom
OfferCheck ==
    /\ main_pc = "offer_check"
    /\ IF ValidOffer(data)
       THEN /\ state' = "SPEED_TEST"
            /\ main_pc' = "run_speed_test"
       ELSE /\ state' = state
            /\ main_pc' = "discover"
    /\ UNCHANGED <<running, file_size, udp_socket, statistics, data, round,
                   tcp_threads, udp_threads, report>>
    /\ UNCHANGED <<server_vars, net_vars>>

\* _run_speed_test up to the joins: the two inputs and the thread starts, with
\* the ports unpacked from the offer as the threads' arguments.
\* The transfers of the round before have ended and their sockets are closed,
\* so what is left of them on the network and in the server is dropped.
StartTransfers(num_tcp, num_udp) ==
    /\ main_pc = "run_speed_test"
    /\ round' = round + 1
    /\ tcp_threads' = [k \in 1..num_tcp |->
           [NewTcpThread EXCEPT !.server_port = UnpackOffer(data).tcp_port]]
    /\ udp_threads' = [k \in 1..num_udp |->
           [NewUdpThread EXCEPT !.server_port = UnpackOffer(data).udp_port]]
    /\ tcp_handlers' = [k \in 1..num_tcp |-> NewTcpHandler]
    /\ udp_handlers' = [k \in 1..num_udp |-> NewUdpHandler]
    /\ tcp_conn' = [k \in 1..num_tcp |-> NewTcpConn]
    /\ udp_req' = [k \in 1..num_udp |-> {}]
    /\ udp_resp' = [k \in 1..num_udp |-> {}]
    /\ main_pc' = "join"
    /\ UNCHANGED <<state, running, file_size, udp_socket, statistics, data, report>>
    /\ UNCHANGED <<srv_running, srv_sockets, ports, srv_pc, broadcast, offer_net>>

\* PrintStatistics with the loss rate taken over the lost packets alone
PrintStatisticsOverLost(st, fs) ==
    LET has_tcp == st.tcp_times # <<>>
        has_udp == st.udp_times # <<>>
        avg_tcp == IF has_tcp THEN Mean(st.tcp_times) ELSE NoQuot
        tcp_speed == IF has_tcp
                     THEN Divide(fs * 8 * Len(st.tcp_times), Sum(st.tcp_times))
                     ELSE NoQuot
        tcp_error == has_tcp /\ ~tcp_speed.ok
        avg_udp == IF has_udp /\ ~tcp_error THEN Mean(st.udp_times) ELSE NoQuot
        loss_rate == IF has_udp /\ ~tcp_error
                     THEN Divide(st.udp_packets_lost * 100, st.udp_packets_lost)
                     ELSE NoQuot
        udp_error == has_udp /\ ~tcp_error /\ ~loss_rate.ok
    IN [avg_tcp |-> avg_tcp, tcp_speed |-> tcp_speed, avg_udp |-> avg_udp,
        loss_rate |-> loss_rate, error |-> tcp_error \/ udp_error]

\* _print_statistics: the figures printed; error = an exception left it
PrintStatistics(st, fs) ==
    LET has_tcp == st.tcp_times # <<>>
        has_udp == st.udp_times # <<>>
        avg_tcp == IF has_tcp THEN Mean(st.tcp_times) ELSE NoQuot
        \* file_size * 8 / avg_tcp, with avg_tcp = sum / len
        tcp_speed == IF has_tcp
                     THEN Divide(fs * 8 * Len(st.tcp_times), Sum(st.tcp_times))
                     ELSE NoQuot
        tcp_error == has_tcp /\ ~tcp_speed.ok
        avg_udp == IF has_udp /\ ~tcp_error THEN Mean(st.udp_times) ELSE NoQuot
        loss_rate == IF has_udp /\ ~tcp_error
                     THEN Divide(st.udp_packets_lost * 100,
                                 st.udp_packets_received + st.udp_packets_lost)
                     ELSE NoQuot
        udp_error == has_udp /\ ~tcp_error /\ ~loss_rate.ok
    IN [avg_tcp |-> avg_tcp, tcp_speed |-> tcp_speed, avg_udp |-> avg_udp,
        loss_rate |-> loss_rate, error |-> tcp_error \/ udp_error]

\* StateAfterRound with the state machine restarted after a round
StateAfterRoundRestart(raised, st) == IF raised THEN st ELSE "STARTUP"

\* self.state = ClientState.LOOKING_FOR_SERVER, unless an exception came first
StateAfterRound(raised, st) == IF raised THEN st ELSE "LOOKING_FOR_SERVER"

\* the joins return, _print_statistics, state = LOOKING_FOR_SERVER, break.
\* An exception of _print_statistics is caught in _discover_server, whose loop
\* then ends with the state left at SPEED_TEST.
JoinAndReport ==
    /\ main_pc = "join"
    /\ AllJoined
    /\ report' = PrintStatistics(statistics, file_size)
    /\ state' = StateAfterRound(report'.error, state)
    /\ main_pc' = "loop"
    /\ UNCHANGED <<running, file_size, udp_socket, statistics, data, round,
                   tcp_threads, udp_threads>>
    /\ UNCHANGED <<server_vars, net_vars>>

\* _signal_handler
SignalHandler ==
    /\ running
    /\ running' = FALSE
    /\ UNCHANGED <<state, file_size, udp_socket, statistics, main_pc, data, round,
                   tcp_threads, udp_threads, report>>
    /\ UNCHANGED <<server_vars, net_vars>>


(***************************************************************************)
(* Client: one _run_tcp_test thread, transfer k of the round.              *)
(***************************************************************************)
\* `while received < self.file_size` decided after `received` changed
TcpLoopPc(received) == IF received < file_size THEN "recv" ELSE "finish"

\* socket(), connect(), send(f"{file_size}\n"), start_time = time.time().
\* connect() raises when nothing listens on server_port.
TcpConnect(k) ==
    /\ k \in DOMAIN tcp_threads
    /\ tcp_threads[k].pc = "start"
    /\ IF srv_sockets = "open" /\ tcp_threads[k].server_port = ports[2]
       THEN /\ tcp_conn' = [tcp_conn EXCEPT ![k] =
                   [open |-> TRUE, req |-> EncodeSizeLine(file_size),
                    avail |-> 0, closed |-> FALSE]]
            /\ tcp_threads' = [tcp_threads EXCEPT ![k].pc = TcpLoopPc(0)]
       ELSE /\ tcp_threads' = [tcp_threads EXCEPT ![k].pc = "done", ![k].error = TRUE]
            /\ UNCHANGED tcp_conn
    /\ UNCHANGED <<state, running, file_size, udp_socket, statistics, main_pc, data, round,
                   udp_threads, report>>
    /\ UNCHANGED <<server_vars, offer_net, udp_req, udp_resp>>

\* select() readable, chunk = recv(min(4096, file_size - received)) with data:
\* the whole of what may be read, or (short) a single byte of it
TcpRecv(k, short) ==
    /\ k \in DOMAIN tcp_threads
    /\ tcp_threads[k].pc = "recv"
    /\ tcp_conn[k].avail > 0
    /\ LET full == Min(Min(client_recv_size, file_size - tcp_threads[k].received),
                       tcp_conn[k].avail)
           n == IF short THEN 1 ELSE full
       IN /\ short => (full > 1 /\ tcp_threads[k].short < MaxShortReads)
          /\ tcp_threads' = [tcp_threads EXCEPT
                 ![k].received = @ + n,
                 ![k].short = IF short THEN @ + 1 ELSE @,
                 ![k].pc = TcpLoopPc(tcp_threads[k].received + n)]
          /\ tcp_conn' = [tcp_conn EXCEPT ![k].avail = @ - n]
    /\ UNCHANGED <<state, running, file_size, udp_socket, statistics, main_pc, data, round,
                   udp_threads, report>>
    /\ UNCHANGED <<server_vars, offer_net, udp_req, udp_resp>>

\* recv() returns b'': the peer closed and nothing is left to read; break
TcpEof(k) ==
    /\ k \in DOMAIN tcp_threads
    /\ tcp_threads[k].pc = "recv"
    /\ tcp_conn[k].avail = 0
    /\ tcp_conn[k].closed
    /\ tcp_threads' = [tcp_threads EXCEPT ![k].pc = "finish", ![k].eof = TRUE]
    /\ UNCHANGED <<state, running, file_size, udp_socket, statistics, main_pc, data, round,
                   udp_threads, report>>
    /\ UNCHANGED <<server_vars, net_vars>>

\* TcpTimeout that leaves the loop by `break`: the transfer that timed out
\* goes on to compute and record a duration
TcpTimeoutBreaks(k) ==
    /\ k \in DOMAIN tcp_threads
    /\ tcp_threads[k].pc = "recv"
    /\ tcp_conn[k].avail = 0
    /\ ~tcp_conn[k].closed
    /\ tcp_threads' = [tcp_threads EXCEPT ![k].pc = "finish", ![k].error = TRUE]
    /\ UNCHANGED <<state, running, file_size, udp_socket, statistics, main_pc, data, round,
                   udp_threads, report>>
    /\ UNCHANGED <<server_vars, net_vars>>

\* select() not readable within 5 s: TimeoutError, caught by `except Exception`
TcpTimeout(k) ==
    /\ k \in DOMAIN tcp_threads
    /\ tcp_threads[k].pc = "recv"
    /\ tcp_conn[k].avail = 0
    /\ ~tcp_conn[k].closed
    /\ tcp_threads' = [tcp_threads EXCEPT ![k].pc = "done", ![k].error = TRUE]
    /\ UNCHANGED <<state, running, file_size, udp_socket, statistics, main_pc, data, round,
                   udp_threads, report>>
    /\ UNCHANGED <<server_vars, net_vars>>

\* self.statistics['tcp_times'].append(transfer_time)
RecordTcp(st, t) == [st EXCEPT !.tcp_times = Append(@, t)]

\* end_time, transfer_time = t, the `if transfer_time > 0` report, close()
TcpFinish(k, t) ==
    /\ k \in DOMAIN tcp_threads
    /\ tcp_threads[k].pc = "finish"
    /\ IF t > 0
       THEN /\ tcp_threads' = [tcp_threads EXCEPT
                   ![k].pc = "done", ![k].transfer_time = t,
                   ![k].speed = Divide(file_size * 8, t)]
            /\ statistics' = RecordTcp(statistics, t)
       ELSE /\ tcp_threads' = [tcp_threads EXCEPT
                   ![k].pc = "done", ![k].transfer_time = t]
            /\ UNCHANGED statistics
    /\ UNCHANGED <<state, running, file_size, udp_socket, main_pc, data, round,
                   udp_threads, report>>
    /\ UNCHANGED <<server_vars, net_vars>>

(***************************************************************************)
(* Server: _handle_requests accepting, and one _handle_tcp_client thread.  *)
(***************************************************************************)
\* DispatcherReady for a dispatcher that runs each handler itself, inline
DispatcherReadyInline ==
    /\ srv_pc = "serving"
    /\ \A j \in DOMAIN tcp_handlers : tcp_handlers[j].pc \in {"idle", "done"}
    /\ \A j \in DOMAIN udp_handlers : udp_handlers[j].pc \in {"idle", "done"}

\* the main thread is in the select loop of _handle_requests: a handler is
\* started as a thread and the loop goes on at once
DispatcherReady == srv_pc = "serving"

\* select() readable on tcp_socket, accept(), Thread(_handle_tcp_client).start()
ServerAccept(k) ==
    /\ k \in DOMAIN tcp_handlers
    /\ DispatcherReady /\ srv_sockets = "open"
    /\ tcp_conn[k].open
    /\ tcp_handlers[k].pc = "idle"
    /\ tcp_handlers' = [tcp_handlers EXCEPT ![k].pc = "read"]
    /\ UNCHANGED <<client_vars, net_vars>>
    /\ UNCHANGED <<srv_running, srv_sockets, ports, srv_pc, broadcast, udp_handlers>>

\* `while remaining > 0 and self.running`, decided where the loop tests it
TcpSendPc(remaining) == IF remaining > 0 /\ srv_running THEN "send" ELSE "close"

\* data = recv(1024).decode().strip(); file_size = int(data); the first test of
\* the while loop.  recv returns the first n bytes of what the stream holds,
\* 1 <= n <= 1024.
TcpHandlerRead(k, n) ==
    /\ k \in DOMAIN tcp_handlers
    /\ tcp_handlers[k].pc = "read"
    /\ n \in 1..Min(server_recv_size, Len(tcp_conn[k].req))
    /\ LET size == ParseInt(Strip(SubSeq(tcp_conn[k].req, 1, n)))
       IN IF size = None
          THEN /\ tcp_handlers' = [tcp_handlers EXCEPT ![k].pc = "done"]
               /\ tcp_conn' = [tcp_conn EXCEPT
                     ![k].req = SubSeq(@, n + 1, Len(@)), ![k].closed = TRUE]
          ELSE /\ tcp_handlers' = [tcp_handlers EXCEPT
                     ![k].pc = TcpSendPc(size), ![k].file_size = size,
                     ![k].remaining = size]
               /\ tcp_conn' = [tcp_conn EXCEPT ![k].req = SubSeq(@, n + 1, Len(@))]
    /\ UNCHANGED <<client_vars, offer_net, udp_req, udp_resp>>
    /\ UNCHANGED <<srv_running, srv_sockets, ports, srv_pc, broadcast, udp_handlers>>

\* the body of the while loop, entered after its test passed: sendall of one
\* chunk, remaining -= current_chunk, and the next test of the loop.
\* Bytes sent to a client that closed its socket are discarded.
TcpHandlerSend(k) ==
    /\ k \in DOMAIN tcp_handlers
    /\ tcp_handlers[k].pc = "send"
    /\ LET current_chunk == Min(chunk_size, tcp_handlers[k].remaining)
       IN /\ tcp_handlers' = [tcp_handlers EXCEPT
                 ![k].remaining = @ - current_chunk,
                 ![k].sent = @ + current_chunk,
                 ![k].max_chunk = IF current_chunk > @ THEN current_chunk ELSE @,
                 ![k].after_stop = IF srv_running THEN @ ELSE @ + 1,
                 ![k].pc = TcpSendPc(tcp_handlers[k].remaining - current_chunk)]
          /\ tcp_conn' = [tcp_conn EXCEPT
                 ![k].avail = IF tcp_threads[k].pc = "done" THEN @
                              ELSE @ + current_chunk]
    /\ UNCHANGED <<client_vars, offer_net, udp_req, udp_resp>>
    /\ UNCHANGED <<srv_running, srv_sockets, ports, srv_pc, broadcast, udp_handlers>>

\* the loop has ended; finally: client_socket.close()
TcpHandlerClose(k) ==
    /\ k \in DOMAIN tcp_handlers
    /\ tcp_handlers[k].pc = "close"
    /\ tcp_handlers' = [tcp_handlers EXCEPT ![k].pc = "done"]
    /\ tcp_conn' = [tcp_conn EXCEPT ![k].closed = TRUE]
    /\ UNCHANGED <<client_vars, offer_net, udp_req, udp_resp>>
    /\ UNCHANGED <<srv_running, srv_sockets, ports, srv_pc, broadcast, udp_handlers>>


(***************************************************************************)
(* Client: one _run_udp_test thread, transfer k of the round.              *)
(***************************************************************************)
\* socket(), sendto(struct.pack('!IbQ', magic, 0x3, file_size)), start_time;
\* a datagram sent to a port that is not the server's reaches no one
UdpSendRequest(k) ==
    /\ k \in DOMAIN udp_threads
    /\ udp_threads[k].pc = "start"
    /\ udp_req' = [udp_req EXCEPT
           ![k] = IF udp_threads[k].server_port = ports[1]
                  THEN @ \cup {PackRequest(magic_cookie, msg_type_request, file_size)}
                  ELSE @]
    /\ udp_threads' = [udp_threads EXCEPT ![k].pc = "select"]
    /\ UNCHANGED <<state, running, file_size, udp_socket, statistics, main_pc, data, round,
                   tcp_threads, report>>
    /\ UNCHANGED <<server_vars, offer_net, udp_resp, tcp_conn>>

\* ValidPayload without the comparison of the magic cookie
ValidPayloadAnyMagic(d) ==
    /\ DLen(d) >= payload_header_size
    /\ UnpackPayloadHeader(d).msg_type = msg_type_payload

\* len(data) >= 21 and the header carries the magic cookie and type 0x4
ValidPayload(d) ==
    /\ DLen(d) >= payload_header_size
    /\ UnpackPayloadHeader(d).magic_cookie = magic_cookie
    /\ UnpackPayloadHeader(d).msg_type = msg_type_payload

\* one turn of the receive loop that got a datagram d, up to the load of
\* statistics['udp_packets_received'] in `+= 1`.  The network hands d over
\* once, or (dup) keeps a copy of it in flight.
UdpRecv(k, d, dup) ==
    /\ k \in DOMAIN udp_threads
    /\ udp_threads[k].pc = "select"
    /\ d \in udp_resp[k]
    /\ dup => udp_threads[k].dups < MaxDup
    /\ udp_resp' = [udp_resp EXCEPT ![k] = IF dup THEN @ ELSE @ \ {d}]
    /\ IF ~ValidPayload(d)
       THEN udp_threads' = [udp_threads EXCEPT
                ![k].data = d,
                ![k].dups = IF dup THEN @ + 1 ELSE @]
       ELSE LET h == UnpackPayloadHeader(d)
            IN udp_threads' = [udp_threads EXCEPT
                   ![k].data = d,
                   ![k].dups = IF dup THEN @ + 1 ELSE @,
                   ![k].total_segments = IF @ = None THEN h.total_segs ELSE @,
                   ![k].received_segments = @ \cup {h.current_seg},
                   ![k].loaded = statistics.udp_packets_received,
                   ![k].pc = "store"]
    /\ UNCHANGED <<state, running, file_size, udp_socket, statistics, main_pc, data, round,
                   tcp_threads, report>>
    /\ UNCHANGED <<server_vars, offer_net, udp_req, tcp_conn>>

\* the store of `+= 1`, then `if len(received_segments) == total_segments: break`
UdpStore(k) ==
    /\ k \in DOMAIN udp_threads
    /\ udp_threads[k].pc = "store"
    /\ statistics' = [statistics EXCEPT
           !.udp_packets_received = udp_threads[k].loaded + 1]
    /\ IF Cardinality(udp_threads[k].received_segments) = udp_threads[k].total_segments
       THEN udp_threads' = [udp_threads EXCEPT ![k].pc = "finish", ![k].exit = "complete"]
       ELSE udp_threads' = [udp_threads EXCEPT ![k].pc = "select"]
    /\ UNCHANGED <<state, running, file_size, udp_socket, main_pc, data, round,
                   tcp_threads, report>>
    /\ UNCHANGED <<server_vars, net_vars>>

\* select() not readable within 5 s (or socket.timeout): break
UdpTimeout(k) ==
    /\ k \in DOMAIN udp_threads
    /\ udp_threads[k].pc = "select"
    /\ udp_resp[k] = {}
    /\ udp_threads' = [udp_threads EXCEPT ![k].pc = "finish", ![k].exit = "timeout"]
    /\ UNCHANGED <<state, running, file_size, udp_socket, statistics, main_pc, data, round,
                   tcp_threads, report>>
    /\ UNCHANGED <<server_vars, net_vars>>

\* RecordUdp with the append replaced by an assignment of a one-element list
RecordUdpOverwrite(st, t, packets_lost) ==
    [st EXCEPT !.udp_times = <<t>>, !.udp_packets_lost = packets_lost]

\* self.statistics['udp_times'].append(transfer_time);
\* self.statistics['udp_packets_lost'] = packets_lost
RecordUdp(st, t, packets_lost) ==
    [st EXCEPT !.udp_times = Append(@, t), !.udp_packets_lost = packets_lost]

\* end_time, transfer_time = t, the `if total_segments` report, close().
\* speed = file_size * 8 / transfer_time raises ZeroDivisionError for t = 0,
\* before anything is stored in the statistics.
UdpFinish(k, t) ==
    /\ k \in DOMAIN udp_threads
    /\ udp_threads[k].pc = "finish"
    /\ LET th == udp_threads[k]
           packets_lost == th.total_segments - Cardinality(th.received_segments)
           loss_rate == Divide(packets_lost * 100, th.total_segments)
           speed == Divide(file_size * 8, t)
       IN IF Truthy(th.total_segments)
          THEN IF speed.ok
               THEN /\ udp_threads' = [udp_threads EXCEPT
                           ![k].pc = "done", ![k].transfer_time = t,
                           ![k].packets_lost = packets_lost,
                           ![k].loss_rate = loss_rate, ![k].speed = speed]
                    /\ statistics' = RecordUdp(statistics, t, packets_lost)
               ELSE /\ udp_threads' = [udp_threads EXCEPT
                           ![k].pc = "done", ![k].transfer_time = t,
                           ![k].packets_lost = packets_lost,
                           ![k].loss_rate = loss_rate, ![k].error = TRUE]
                    /\ UNCHANGED statistics
          ELSE /\ udp_threads' = [udp_threads EXCEPT
                      ![k].pc = "done", ![k].transfer_time = t]
               /\ UNCHANGED statistics
    /\ udp_resp' = [udp_resp EXCEPT ![k] = {}]
    /\ UNCHANGED <<state, running, file_size, udp_socket, main_pc, data, round,
                   tcp_threads, report>>
    /\ UNCHANGED <<server_vars, offer_net, udp_req, tcp_conn>>

(***************************************************************************)
(* Server: start, stop, the broadcaster, _handle_requests receiving a      *)
(* datagram, and one _handle_udp_speed_test thread.                        *)
(***************************************************************************)
\* start() up to _handle_requests: running = True, both sockets bound and
\* listening, the broadcaster thread started
ServerStart ==
    /\ srv_pc = "init"
    /\ srv_running' = TRUE
    /\ srv_sockets' = "open"
    /\ broadcast' = [broadcast EXCEPT !.pc = "start"]
    /\ srv_pc' = "serving"
    /\ UNCHANGED <<client_vars, net_vars, ports, udp_handlers, tcp_handlers>>

\* start() when bind() or listen() raises: `except Exception` prints and calls
\* stop(), which clears running and closes the sockets created so far; the
\* broadcaster was not started and _handle_requests is not entered
ServerStartFails ==
    /\ srv_pc = "init"
    /\ srv_running' = FALSE
    /\ srv_sockets' = "closed"
    /\ srv_pc' = "start_failed"
    /\ UNCHANGED <<client_vars, net_vars, ports, broadcast, udp_handlers, tcp_handlers>>

\* the signal handler on the main thread enters stop(): self.running = False
ServerStop ==
    /\ srv_pc = "serving"
    /\ srv_running' = FALSE
    /\ srv_pc' = "stopping"
    /\ UNCHANGED <<client_vars, net_vars, srv_sockets, ports, broadcast,
                   udp_handlers, tcp_handlers>>

\* the rest of stop(): udp_socket.close(), tcp_socket.close()
ServerStopClose ==
    /\ srv_pc = "stopping"
    /\ srv_sockets' = "closed"
    /\ srv_pc' = "stopped"
    /\ UNCHANGED <<client_vars, net_vars, srv_running, ports, broadcast,
                   udp_handlers, tcp_handlers>>

\* back in _handle_requests after the signal: select() on the closed sockets
\* raises, `while self.running` fails and start() returns
DispatcherExit ==
    /\ srv_pc = "stopped"
    /\ srv_pc' = "exited"
    /\ UNCHANGED <<client_vars, net_vars, srv_running, srv_sockets, ports,
                   broadcast, udp_handlers, tcp_handlers>>

offer_message == PackOffer(magic_cookie, msg_type_offer, ports[1], ports[2])

\* `while self.running` of _broadcast_offer, decided where the loop tests it
BroadcastPc == IF srv_running THEN "send" ELSE "done"

\* the broadcaster thread up to the first test of its loop
BroadcastBegin ==
    /\ broadcast.pc = "start"
    /\ broadcast' = [broadcast EXCEPT !.pc = BroadcastPc]
    /\ UNCHANGED <<client_vars, net_vars>>
    /\ UNCHANGED <<srv_running, srv_sockets, ports, srv_pc, udp_handlers, tcp_handlers>>

\* the body of the loop, entered after its test passed: sendto, sleep(1), and
\* the next test of the loop
BroadcastOffer ==
    /\ broadcast.pc = "send"
    /\ offer_net' = offer_net \cup {offer_message}
    /\ broadcast' = [pc |-> BroadcastPc,
                     after_stop |-> IF srv_running THEN broadcast.after_stop
                                    ELSE broadcast.after_stop + 1]
    /\ UNCHANGED <<client_vars, udp_req, udp_resp, tcp_conn>>
    /\ UNCHANGED <<srv_running, srv_sockets, ports, srv_pc, udp_handlers, tcp_handlers>>

\* select() readable on udp_socket, recvfrom, Thread(_handle_udp_speed_test).start().
\* The handlers are kept by the address they answer to: a handler that has
\* ended makes room for the handler of the next datagram from that address.
ServerDispatchUdp(k, d) ==
    /\ k \in DOMAIN udp_handlers
    /\ DispatcherReady /\ srv_sockets = "open"
    /\ d \in udp_req[k]
    /\ udp_handlers[k].pc \in {"idle", "done"}
    /\ udp_req' = [udp_req EXCEPT ![k] = @ \ {d}]
    /\ udp_handlers' = [udp_handlers EXCEPT
           ![k] = [NewUdpHandler EXCEPT !.pc = "unpack", !.data = d]]
    /\ UNCHANGED <<client_vars, offer_net, udp_resp, tcp_conn>>
    /\ UNCHANGED <<srv_running, srv_sockets, ports, srv_pc, broadcast, tcp_handlers>>

\* TotalSegments rounding down: file_size // segment_size
TotalSegmentsFloor(size) == size \div segment_size

\* total_segments = (file_size + segment_size - 1) // segment_size
TotalSegments(size) == (size + segment_size - 1) \div segment_size

\* UdpSendPc for a loop over range(total_segments + 1)
UdpSendPcInclusive(i, total_segments) ==
    IF i <= total_segments /\ srv_running THEN "send" ELSE "done"

\* UdpSendPc without the test of self.running
UdpSendPcNoFlag(i, total_segments) == IF i < total_segments THEN "send" ELSE "done"

\* `for i in range(total_segments)` with `if not self.running: break`, decided
\* where the loop tests them
UdpSendPc(i, total_segments) ==
    IF i < total_segments /\ srv_running THEN "send" ELSE "done"

\* struct.unpack (struct.error unless 13 bytes, caught by `except Exception`),
\* the magic/type check, total_segments, and the first test of the loop
UdpHandlerUnpack(k) ==
    /\ k \in DOMAIN udp_handlers
    /\ udp_handlers[k].pc = "unpack"
    /\ LET r == UnpackRequest(udp_handlers[k].data)
       IN IF r.error
          THEN udp_handlers' = [udp_handlers EXCEPT ![k].pc = "done"]
          ELSE IF r.magic_cookie # magic_cookie \/ r.msg_type # msg_type_request
          THEN udp_handlers' = [udp_handlers EXCEPT ![k].pc = "done"]
          ELSE udp_handlers' = [udp_handlers EXCEPT
                   ![k].pc = UdpSendPc(0, TotalSegments(r.file_size)),
                   ![k].file_size = r.file_size,
                   ![k].total_segments = TotalSegments(r.file_size)]
    /\ UNCHANGED <<client_vars, net_vars>>
    /\ UNCHANGED <<srv_running, srv_sockets, ports, srv_pc, broadcast, tcp_handlers>>

\* the body of the loop, entered after its tests passed: sendto on
\* self.udp_socket, sleep(delay), and the next tests of the loop.  sendto on the
\* socket that stop() closed raises, which ends the handler.  A datagram sent to
\* a client that closed its socket is discarded.
UdpHandlerSend(k) ==
    /\ k \in DOMAIN udp_handlers
    /\ udp_handlers[k].pc = "send"
    /\ LET h == udp_handlers[k]
           remaining == Min(segment_size, h.file_size - h.i * segment_size)
           dgram == PackPayload(magic_cookie, msg_type_payload,
                                h.total_segments, h.i, remaining)
       IN IF srv_sockets = "open"
          THEN /\ udp_resp' = [udp_resp EXCEPT
                      ![k] = IF udp_threads[k].pc = "done" THEN @ ELSE @ \cup {dgram}]
               /\ udp_handlers' = [udp_handlers EXCEPT
                      ![k].i = @ + 1, ![k].sent = @ + remaining,
                      ![k].after_stop = IF srv_running THEN @ ELSE @ + 1,
                      ![k].pc = UdpSendPc(h.i + 1, h.total_segments)]
          ELSE /\ udp_handlers' = [udp_handlers EXCEPT ![k].pc = "done"]
               /\ UNCHANGED udp_resp
    /\ UNCHANGED <<client_vars, offer_net, udp_req, tcp_conn>>
    /\ UNCHANGED <<srv_running, srv_sockets, ports, srv_pc, broadcast, tcp_handlers>>

\* the tasks that are in a call on self.udp_socket of the server: the main
\* thread, which created it, in select/recvfrom of _handle_requests, and every
\* _handle_udp_speed_test thread that is about to sendto on it
UdpSocketUsers ==
    (IF DispatcherReady /\ srv_sockets = "open" THEN {<<"main", 0>>} ELSE {})
    \cup {<<"udp_handler", k>> : k \in {j \in DOMAIN udp_handlers :
                                             udp_handlers[j].pc = "send"}}

(***************************************************************************)
(* Network: UDP loses datagrams.                                           *)
(***************************************************************************)
UdpLoseRequest(k, d) ==
    /\ k \in DOMAIN udp_req
    /\ d \in udp_req[k]
    /\ udp_req' = [udp_req EXCEPT ![k] = @ \ {d}]
    /\ UNCHANGED <<client_vars, server_vars, offer_net, udp_resp, tcp_conn>>

UdpLosePayload(k, d) ==
    /\ k \in DOMAIN udp_resp
    /\ d \in udp_resp[k]
    /\ udp_resp' = [udp_resp EXCEPT ![k] = @ \ {d}]
    /\ UNCHANGED <<client_vars, server_vars, offer_net, udp_req, tcp_conn>>

(***************************************************************************)
(* Network: datagrams of other senders.  recvfrom takes a datagram from    *)
(* whoever sent it to the socket.                                           *)
(***************************************************************************)
\* a magic cookie that differs from 0xabcddcba in its last byte
foreign_cookie == <<171, 205, 220, 187>>

\* datagrams with another magic cookie sent to a transfer's UDP socket: one
\* that is a payload datagram in everything else, and one of four bytes
ForeignPayloads ==
    {PackPayload(foreign_cookie, msg_type_payload, 9, 7, 3),
     Dgram(foreign_cookie, 0)}

\* datagrams with another magic cookie sent to the server's UDP port: one that
\* is a request in everything else, and one that is not 13 bytes long
ForeignRequests ==
    {PackRequest(foreign_cookie, msg_type_request, 5000),
     Dgram(foreign_cookie \o BE(msg_type_request, 1), 0)}

\* another sender's datagram d arrives at the socket of UDP transfer k
UdpForeignPayload(k, d) ==
    /\ k \in DOMAIN udp_threads
    /\ udp_threads[k].pc \in {"select", "store"}
    /\ d \notin udp_resp[k]
    /\ udp_resp' = [udp_resp EXCEPT ![k] = @ \cup {d}]
    /\ UNCHANGED <<client_vars, server_vars, offer_net, udp_req, tcp_conn>>

\* another sender's datagram d arrives at the server's UDP socket (the sender
\* is kept apart by the slot k its handler takes)
UdpForeignRequest(k, d) ==
    /\ k \in DOMAIN udp_req
    /\ srv_sockets = "open"
    /\ d \notin udp_req[k]
    /\ udp_req' = [udp_req EXCEPT ![k] = @ \cup {d}]
    /\ UNCHANGED <<client_vars, server_vars, offer_net, udp_resp, tcp_conn>>

(***************************************************************************)
(* Inputs and specifications.                                              *)
(***************************************************************************)
\* datagrams on the offer port that are no offer of the server
ForeignOffers ==
    {Dgram(SubSeq(offer_message.hdr, 1, 8), 0),
     Dgram(offer_message.hdr \o <<0>>, 0),
     PackOffer(magic_cookie, msg_type_request, ports[1], ports[2]),
     PackOffer(foreign_cookie, msg_type_offer, ports[1], ports[2])}

Durations == 0..MaxDur

\* the main thread of the client, for the file sizes and connection counts given
\* and at most `rounds` rounds
MainSteps(sizes, counts, rounds) ==
    \/ round < rounds /\ \E f \in sizes : GetFileSize(f)
    \/ ExitLoop
    \/ \E d \in offer_net \cup ForeignOffers : DiscoverRecv(d)
    \/ DiscoverExit
    \/ OfferCheck
    \/ \E c \in counts : StartTransfers(c[1], c[2])
    \/ JoinAndReport

\* the TCP transfers: client threads, the server's accept and handlers
TcpSteps ==
    \/ \E k \in DOMAIN tcp_threads : TcpConnect(k)
    \/ \E k \in DOMAIN tcp_threads, short \in BOOLEAN : TcpRecv(k, short)
    \/ \E k \in DOMAIN tcp_threads : TcpEof(k)
    \/ \E k \in DOMAIN tcp_threads : TcpTimeout(k)
    \/ \E k \in DOMAIN tcp_threads, t \in Durations : TcpFinish(k, t)
    \/ \E k \in DOMAIN tcp_handlers : ServerAccept(k)
    \/ \E k \in DOMAIN tcp_handlers : \E n \in 1..Len(tcp_conn[k].req) : TcpHandlerRead(k, n)
    \/ \E k \in DOMAIN tcp_handlers : TcpHandlerSend(k)
    \/ \E k \in DOMAIN tcp_handlers : TcpHandlerClose(k)

\* the UDP transfers: client threads, the server's dispatch and handlers, losses
UdpSteps ==
    \/ \E k \in DOMAIN udp_threads : UdpSendRequest(k)
    \/ \E k \in DOMAIN udp_threads : \E d \in udp_resp[k], dup \in BOOLEAN : UdpRecv(k, d, dup)
    \/ \E k \in DOMAIN udp_threads : UdpStore(k)
    \/ \E k \in DOMAIN udp_threads : UdpTimeout(k)
    \/ \E k \in DOMAIN udp_threads, t \in Durations : UdpFinish(k, t)
    \/ \E k \in DOMAIN udp_handlers : \E d \in udp_req[k] : ServerDispatchUdp(k, d)
    \/ \E k \in DOMAIN udp_handlers : UdpHandlerUnpack(k)
    \/ \E k \in DOMAIN udp_handlers : UdpHandlerSend(k)
    \/ \E k \in DOMAIN udp_threads : \E d \in udp_req[k] : UdpLoseRequest(k, d)
    \/ \E k \in DOMAIN udp_threads : \E d \in udp_resp[k] : UdpLosePayload(k, d)

\* the server's main thread (start, the signal handler's stop, the end of the
\* dispatcher loop) and its broadcaster thread
ServerSteps ==
    \/ ServerStart
    \/ ServerStop
    \/ ServerStopClose
    \/ DispatcherExit
    \/ BroadcastBegin
    \/ BroadcastOffer

\* Spec: the whole system over MaxRounds rounds, each round with at most one
\* transfer of each kind and a file of at most one segment.
RoundSizes == {0, 1}
SeqCounts == {0, 1} \X {0, 1}

Next ==
    \/ MainSteps(RoundSizes, SeqCounts, MaxRounds)
    \/ SignalHandler
    \/ ServerSteps
    \/ TcpSteps
    \/ UdpSteps

Spec == Init /\ [][Next]_vars

\* SpecRound: the first round, with up to MaxTcp TCP and MaxUdp UDP transfers
\* running concurrently against a server that stays up, and no signal to the
\* client.
RoundCounts == (0..MaxTcp) \X (0..MaxUdp)

\* the main thread of the client while self.running stays True
RoundSteps(sizes, counts, rounds) ==
    \/ round < rounds /\ \E f \in sizes : GetFileSize(f)
    \/ \E d \in offer_net \cup ForeignOffers : DiscoverRecv(d)
    \/ OfferCheck
    \/ \E c \in counts : StartTransfers(c[1], c[2])
    \/ JoinAndReport

\* the TCP transfers against a server that stays up: no peer closes early
TcpRoundSteps ==
    \/ \E k \in DOMAIN tcp_threads : TcpConnect(k)
    \/ \E k \in DOMAIN tcp_threads, short \in BOOLEAN : TcpRecv(k, short)
    \/ \E k \in DOMAIN tcp_threads : TcpTimeout(k)
    \/ \E k \in DOMAIN tcp_threads, t \in Durations : TcpFinish(k, t)
    \/ \E k \in DOMAIN tcp_handlers : ServerAccept(k)
    \/ \E k \in DOMAIN tcp_handlers : \E n \in 1..Len(tcp_conn[k].req) : TcpHandlerRead(k, n)
    \/ \E k \in DOMAIN tcp_handlers : TcpHandlerSend(k)
    \/ \E k \in DOMAIN tcp_handlers : TcpHandlerClose(k)

NextRound ==
    \/ RoundSteps(RoundSizes, RoundCounts, 1)
    \/ ServerStart
    \/ BroadcastBegin
    \/ BroadcastOffer
    \/ TcpRoundSteps
    \/ UdpSteps

SpecRound == Init /\ [][NextRound]_vars

\* SpecUdp: one round of a single UDP transfer, for files of zero to three
\* segments.
UdpSizes == {0, 1, 1024, 1025, 2049}

NextUdp ==
    \/ MainSteps(UdpSizes, {<<0, 1>>}, 1)
    \/ SignalHandler
    \/ ServerSteps
    \/ UdpSteps

SpecUdp == Init /\ [][NextUdp]_vars

\* SpecTcp: one round of a single TCP transfer, for files of zero to four
\* chunks.
TcpSizes == {0, 12, 65536, 65537, 200000}

NextTcp ==
    \/ MainSteps(TcpSizes, {<<1, 0>>}, 1)
    \/ SignalHandler
    \/ ServerSteps
    \/ TcpSteps

SpecTcp == Init /\ [][NextTcp]_vars

\* SpecForeign: one round of a single UDP transfer of two segments, while other
\* senders put datagrams with another magic cookie on the offer port, on the
\* server's UDP port and on the transfer's socket.
ForeignSizes == {1025}

NextForeign ==
    \/ RoundSteps(ForeignSizes, {<<0, 1>>}, 1)
    \/ ServerStart
    \/ BroadcastBegin
    \/ BroadcastOffer
    \/ UdpSteps
    \/ \E k \in DOMAIN udp_threads : \E d \in ForeignPayloads : UdpForeignPayload(k, d)
    \/ \E k \in DOMAIN udp_req : \E d \in ForeignRequests : UdpForeignRequest(k, d)

SpecForeign == Init /\ [][NextForeign]_vars

\* SpecStats: one round of a file of no or of two segments, with one TCP and
\* one UDP transfer or with two UDP transfers, against a server that stays up.
StatsSizes == {0, 1025}
StatsCounts == {<<1, 1>>, <<0, 2>>}

NextStats ==
    \/ RoundSteps(StatsSizes, StatsCounts, 1)
    \/ ServerStart
    \/ BroadcastBegin
    \/ BroadcastOffer
    \/ TcpRoundSteps
    \/ UdpSteps

SpecStats == Init /\ [][NextStats]_vars

\* SpecStop: one round of a single UDP transfer of three segments or of a
\* single TCP transfer of two chunks, against a server that is stopped by a
\* signal at any moment.  The threads of the server are scheduled fairly:
\* stop() runs to its end, the dispatcher loop, the broadcaster and every
\* handler that was started take their next step.
StopInputs == {<<2049, 0, 1>>, <<65537, 1, 0>>}

NextStop ==
    \/ round < 1 /\ \E in \in StopInputs : GetFileSize(in[1])
    \/ \E d \in offer_net \cup ForeignOffers : DiscoverRecv(d)
    \/ OfferCheck
    \/ \E in \in StopInputs : in[1] = file_size /\ StartTransfers(in[2], in[3])
    \/ JoinAndReport
    \/ ServerSteps
    \/ TcpSteps
    \/ UdpSteps

SpecStop ==
    /\ Init /\ [][NextStop]_vars
    /\ WF_vars(ServerStopClose)
    /\ WF_vars(DispatcherExit)
    /\ WF_vars(BroadcastBegin)
    /\ WF_vars(BroadcastOffer)
    /\ WF_vars(\E k \in DOMAIN tcp_handlers : \E n \in 1..Len(tcp_conn[k].req) : TcpHandlerRead(k, n))
    /\ WF_vars(\E k \in DOMAIN tcp_handlers : TcpHandlerSend(k))
    /\ WF_vars(\E k \in DOMAIN tcp_handlers : TcpHandlerClose(k))
    /\ WF_vars(\E k \in DOMAIN udp_handlers : UdpHandlerUnpack(k))
    /\ WF_vars(\E k \in DOMAIN udp_handlers : UdpHandlerSend(k))

\* SpecLive: one round of one TCP and one UDP transfer of a file of two
\* segments, against a server that stays up, while another sender may put a
\* datagram on the UDP transfer's socket whenever it likes.  Every thread that
\* can take a step is scheduled: the transfer threads, the main thread waiting
\* in join, the server's dispatcher and handlers.  The network and the other
\* sender are under no obligation.
LiveSizes == {1025}

TcpThreadStep(k) ==
    \/ TcpConnect(k)
    \/ \E short \in BOOLEAN : TcpRecv(k, short)
    \/ TcpEof(k)
    \/ TcpTimeout(k)
    \/ \E t \in Durations : TcpFinish(k, t)

UdpThreadStep(k) ==
    \/ UdpSendRequest(k)
    \/ \E d \in udp_resp[k], dup \in BOOLEAN : UdpRecv(k, d, dup)
    \/ UdpStore(k)
    \/ UdpTimeout(k)
    \/ \E t \in Durations : UdpFinish(k, t)

NextLive ==
    \/ RoundSteps(LiveSizes, {<<1, 1>>}, 1)
    \/ ServerStart
    \/ BroadcastBegin
    \/ BroadcastOffer
    \/ TcpSteps
    \/ UdpSteps
    \/ \E k \in DOMAIN udp_threads : \E d \in ForeignPayloads : UdpForeignPayload(k, d)

SpecLive ==
    /\ Init /\ [][NextLive]_vars
    /\ WF_vars(JoinAndReport)
    /\ WF_vars(\E k \in DOMAIN tcp_threads : TcpThreadStep(k))
    /\ WF_vars(\E k \in DOMAIN udp_threads : UdpThreadStep(k))
    /\ WF_vars(\E k \in DOMAIN tcp_handlers : ServerAccept(k))
    /\ WF_vars(\E k \in DOMAIN tcp_handlers : \E n \in 1..Len(tcp_conn[k].req) : TcpHandlerRead(k, n))
    /\ WF_vars(\E k \in DOMAIN tcp_handlers : TcpHandlerSend(k))
    /\ WF_vars(\E k \in DOMAIN tcp_handlers : TcpHandlerClose(k))
    /\ WF_vars(\E k \in DOMAIN udp_handlers : \E d \in udp_req[k] : ServerDispatchUdp(k, d))
    /\ WF_vars(\E k \in DOMAIN udp_handlers : UdpHandlerUnpack(k))
    /\ WF_vars(\E k \in DOMAIN udp_handlers : UdpHandlerSend(k))

\* SpecStartup: start-up of both components with bind() free to fail: the
\* server's start() either reaches _handle_requests or raises, the client's
\* _setup_udp_socket either binds or raises, in every turn of the main loop;
\* one round of one UDP transfer of one segment follows a successful setup.
StartupSizes == {1}

NextStartup ==
    \/ MainSteps(StartupSizes, {<<0, 1>>}, 1)
    \/ \E f \in StartupSizes : SetupFails(f)
    \/ SignalHandler
    \/ ServerStart
    \/ ServerStartFails
    \/ BroadcastBegin
    \/ BroadcastOffer
    \/ UdpSteps

SpecStartup == Init /\ [][NextStartup]_vars

\* SpecOffer: the offer packed for ports over the whole range of the 'H'
\* format (its ends, the ends of the range the ports are drawn from, and the
\* values around a byte boundary), broadcast, unpacked by the client and used
\* by one TCP and one UDP transfer.
OfferPorts == {0, 255, 256, 20000, 65000, 65535}

InitOffer ==
    /\ state = "STARTUP"
    /\ running = TRUE
    /\ file_size = None
    /\ statistics = EmptyStats
    /\ main_pc = "loop"
    /\ data = NoDgram
    /\ round = 0
    /\ tcp_threads = <<>>
    /\ udp_threads = <<>>
    /\ report = NoReport
    /\ udp_socket = "none"
    /\ srv_running = FALSE
    /\ srv_sockets = "none"
    /\ ports \in OfferPorts \X OfferPorts
    /\ srv_pc = "init"
    /\ broadcast = NoBroadcast
    /\ udp_handlers = <<>>
    /\ tcp_handlers = <<>>
    /\ offer_net = {}
    /\ udp_req = <<>>
    /\ udp_resp = <<>>
    /\ tcp_conn = <<>>

OfferSizes == {1}

NextOffer ==
    \/ RoundSteps(OfferSizes, {<<1, 1>>}, 1)
    \/ ServerStart
    \/ BroadcastBegin
    \/ BroadcastOffer
    \/ TcpRoundSteps
    \/ UdpSteps

SpecOffer == InitOffer /\ [][NextOffer]_vars


(***************************************************************************)
(* Properties.                                                             *)
(***************************************************************************)
\* _run_speed_test has returned from the first round
FirstRoundReturned == round = 1 /\ main_pc \in {"loop", "exited"}

\* ceil(a / b) for b > 0
Ceil(a, b) == IF a % b = 0 THEN a \div b ELSE a \div b + 1

RECURSIVE DistinctSegments(_)
\* the distinct segment indices the UDP transfers 1..n have seen, in all
DistinctSegments(n) ==
    IF n = 0 THEN 0
    ELSE DistinctSegments(n - 1) + Cardinality(udp_threads[n].received_segments)

TcpCompleted(k) ==
    /\ tcp_threads[k].pc = "done"
    /\ ~tcp_threads[k].error
    /\ tcp_threads[k].transfer_time > 0

UdpCompleted(k) ==
    /\ udp_threads[k].pc = "done"
    /\ ~udp_threads[k].error
    /\ udp_threads[k].transfer_time > 0
    /\ udp_threads[k].received_segments # {}

\* C1: after the first round, in which each of the N TCP and M UDP transfers
\* ran to completion with a positive duration (and, for UDP, at least one
\* payload), the statistics hold exactly N TCP and exactly M UDP durations.
C1_RoundDurations ==
    ( /\ FirstRoundReturned
      /\ \A k \in DOMAIN tcp_threads : TcpCompleted(k)
      /\ \A k \in DOMAIN udp_threads : UdpCompleted(k) )
    => /\ Len(statistics.tcp_times) = Len(tcp_threads)
       /\ Len(statistics.udp_times) = Len(udp_threads)

C1_Witness ==
    /\ FirstRoundReturned
    /\ Len(tcp_threads) = 1 /\ Len(udp_threads) >= 2
    /\ \A k \in DOMAIN tcp_threads : TcpCompleted(k)
    /\ \A k \in DOMAIN udp_threads : UdpCompleted(k)
    /\ Len(statistics.tcp_times) = 1 /\ Len(statistics.udp_times) = Len(udp_threads)

\* C2: when the transfers of a round start (the threads exist and none has
\* taken a step), the duration lists are empty and the counters are 0.
C2_StatsResetEachRound ==
    ( /\ main_pc = "join"
      /\ \A k \in DOMAIN tcp_threads : tcp_threads[k].pc = "start"
      /\ \A k \in DOMAIN udp_threads : udp_threads[k].pc = "start" )
    => statistics = EmptyStats

\* C3: when the single UDP transfer of the first round has ended, the udp
\* received counter equals the number of distinct segment indices it has seen.
C3_ReceivedCountsDistinct ==
    \A k \in DOMAIN udp_threads :
        udp_threads[k].pc = "done" =>
            statistics.udp_packets_received =
                Cardinality(udp_threads[k].received_segments)

\* C4: in the first round the statistics are not written while a transfer
\* thread of the round is still running, and once all are joined no update of
\* the received counter has been lost: it counts every distinct segment seen.
C4_StatsWrittenAfterJoin ==
    /\ (round = 1 /\ main_pc = "join" /\ ~AllJoined) => statistics = EmptyStats
    /\ (round = 1 /\ main_pc = "join" /\ AllJoined) =>
           statistics.udp_packets_received >= DistinctSegments(Len(udp_threads))

\* the second half of C4 alone: no update of the received counter is lost
C4_NoLostUpdate ==
    (round = 1 /\ main_pc = "join" /\ AllJoined) =>
        statistics.udp_packets_received >= DistinctSegments(Len(udp_threads))

\* C5: for a file size F >= 1 the server announces ceil(F / 1024) segments in
\* every payload datagram, and a transfer that has received every segment
\* stopped on completion (not on timeout) with as many segments received as
\* announced, 0 packets lost and a loss rate of 0.
C5_AllSegmentsReceived ==
    \A k \in DOMAIN udp_threads :
        file_size >= 1 =>
            /\ \A d \in udp_resp[k] :
                   /\ ValidPayload(d)
                   /\ UnpackPayloadHeader(d).total_segs = Ceil(file_size, segment_size)
            /\ ( /\ udp_threads[k].pc = "done"
                 /\ udp_threads[k].received_segments
                        = 0..(Ceil(file_size, segment_size) - 1) )
               => /\ udp_threads[k].exit = "complete"
                  /\ Cardinality(udp_threads[k].received_segments)
                         = udp_threads[k].total_segments
                  /\ udp_threads[k].total_segments = Ceil(file_size, segment_size)
                  /\ udp_threads[k].packets_lost = 0
                  /\ udp_threads[k].loss_rate.ok
                  /\ udp_threads[k].loss_rate.num = 0

C5_Witness ==
    \E k \in DOMAIN udp_threads :
        /\ file_size = 2049
        /\ udp_threads[k].pc = "done"
        /\ udp_threads[k].received_segments = {0, 1, 2}
        /\ udp_threads[k].exit = "complete"
        /\ udp_threads[k].packets_lost = 0

\* C6: a TCP transfer that ended without an exception has its duration in the
\* statistics whether or not the duration is positive; with a non-positive
\* duration no speed is computed, with a positive one speed = file_size*8/duration.
C6_TcpRecordKept ==
    \A k \in DOMAIN tcp_threads :
        (tcp_threads[k].pc = "done" /\ ~tcp_threads[k].error) =>
            /\ statistics.tcp_times = <<tcp_threads[k].transfer_time>>
            /\ tcp_threads[k].speed =
                   IF tcp_threads[k].transfer_time > 0
                   THEN Divide(file_size * 8, tcp_threads[k].transfer_time)
                   ELSE NoQuot

\* C7: for file_size = 0 the server's handler computes total_segments = 0 and
\* sends nothing, and the client's transfer ends without the receive timeout,
\* with nothing received, nothing lost and no exception.
C7_ZeroSizeImmediate ==
    \A k \in DOMAIN udp_threads :
        file_size = 0 =>
            /\ udp_resp[k] = {}
            /\ udp_handlers[k].pc \in {"send", "done"} => udp_handlers[k].total_segments = 0
            /\ udp_threads[k].pc \in {"finish", "done"} =>
                   /\ udp_threads[k].exit # "timeout"
                   /\ udp_threads[k].received_segments = {}
                   /\ ~udp_threads[k].error
                   /\ statistics.udp_packets_lost = 0
                   /\ statistics.udp_packets_received = 0

\* C8: while the server stays running and the transfer raises no exception,
\* the handler, once done, has written exactly file_size bytes in chunks of at
\* most 65536 bytes; the client never has more than file_size bytes and has
\* exactly file_size when its receive loop has ended.
C8_TcpExactBytes ==
    \A k \in DOMAIN tcp_threads :
        (srv_running /\ ~tcp_threads[k].error) =>
            /\ tcp_handlers[k].max_chunk <= chunk_size
            /\ tcp_handlers[k].pc = "done" => tcp_handlers[k].sent = file_size
            /\ tcp_threads[k].received <= file_size
            /\ tcp_threads[k].pc \in {"finish", "done"} =>
                   tcp_threads[k].received = file_size

\* C9: the state changes only STARTUP -> LOOKING_FOR_SERVER -> SPEED_TEST ->
\* LOOKING_FOR_SERVER; SPEED_TEST is entered only from LOOKING_FOR_SERVER, by
\* the offer check on a valid offer; while in SPEED_TEST no datagram is taken
\* from the discovery socket, and SPEED_TEST is left only when every transfer
\* thread of the round has been joined.
C9_StateMachine ==
    [][ /\ state' # state =>
               <<state, state'>> \in {<<"STARTUP", "LOOKING_FOR_SERVER">>,
                                      <<"LOOKING_FOR_SERVER", "SPEED_TEST">>,
                                      <<"SPEED_TEST", "LOOKING_FOR_SERVER">>}
        /\ (state' = "SPEED_TEST" /\ state # "SPEED_TEST") =>
               (main_pc = "offer_check" /\ ValidOffer(data))
        /\ state = "SPEED_TEST" => main_pc' # "offer_check"
        /\ (round' # round \/ tcp_threads' # tcp_threads \/ udp_threads' # udp_threads)
               => (state = "SPEED_TEST" \/ main_pc = "loop")
        /\ (state = "SPEED_TEST" /\ state' # "SPEED_TEST") => AllJoined
      ]_vars

C9_Witness ==
    /\ round = 2
    /\ state = "LOOKING_FOR_SERVER"
    /\ main_pc = "loop"
    /\ Len(tcp_threads) = 1 /\ Len(udp_threads) = 1

\* what C10 is about: a datagram that is not 9 bytes long, or whose type is not 0x2
NotAnOffer(d) ==
    IF DLen(d) # offer_size THEN TRUE ELSE UnpackOffer(d).msg_type # msg_type_offer

\* C10: the listener's step on a received datagram that is not 9 bytes long or
\* whose type is not 0x2 leaves the state LOOKING_FOR_SERVER, starts no
\* transfer, leaves the statistics unchanged and goes back to waiting.
C10_IgnoresNonOffers ==
    [][ (main_pc = "offer_check" /\ main_pc' # main_pc /\ NotAnOffer(data)) =>
            /\ state = "LOOKING_FOR_SERVER"
            /\ state' = "LOOKING_FOR_SERVER"
            /\ main_pc' = "discover"
            /\ UNCHANGED <<statistics, round, tcp_threads, udp_threads>>
      ]_vars

C10_Witness ==
    /\ main_pc = "discover"
    /\ DLen(data) = 8
    /\ state = "LOOKING_FOR_SERVER"
    /\ round = 1

\* the first four bytes of d are not the magic cookie
WrongMagic(d) == Len(d.hdr) < 4 \/ SubSeq(d.hdr, 1, 4) # magic_cookie

\* C11: a datagram whose magic field is not 0xabcddcba is rejected by every
\* decoder: no round is started on such an offer; a transfer that received
\* such a payload datagram does not count it and never takes its segment index
\* or its total; the handler of such a request ends without sending a
\* datagram, whether the datagram has the length of a request (magic check) or
\* not (struct.error, caught in the handler).
C11_WrongMagicRejected ==
    /\ (state = "SPEED_TEST" \/ main_pc \in {"run_speed_test", "join"})
           => ~WrongMagic(data)
    /\ \A k \in DOMAIN udp_threads :
           /\ (udp_threads[k].data # NoDgram /\ WrongMagic(udp_threads[k].data))
                  => udp_threads[k].pc \in {"select", "finish", "done"}
           /\ 7 \notin udp_threads[k].received_segments
           /\ udp_threads[k].total_segments # 9
    /\ \A k \in DOMAIN udp_handlers :
           WrongMagic(udp_handlers[k].data) =>
               /\ udp_handlers[k].pc \in {"idle", "unpack", "done"}
               /\ udp_handlers[k].i = 0
               /\ udp_handlers[k].sent = 0
    /\ \A k \in DOMAIN udp_resp : \A d \in udp_resp[k] :
           ~WrongMagic(d) => UnpackPayloadHeader(d).total_segs = TotalSegments(file_size)

C11_Witness ==
    /\ main_pc = "join"
    /\ \E k \in DOMAIN udp_threads :
           /\ udp_threads[k].pc = "select"
           /\ udp_threads[k].data = PackPayload(foreign_cookie, msg_type_payload, 9, 7, 3)
           /\ udp_threads[k].received_segments = {0}
           /\ udp_threads[k].total_segments = 2
           /\ udp_handlers[k].pc = "done"
           /\ udp_handlers[k].data = PackRequest(foreign_cookie, msg_type_request, 5000)

\* C12: for every pair of ports (u, t) the offer the server packs is exactly
\* 9 bytes, the client's unpacking of it yields the magic cookie, type 0x2,
\* udp_port = u and tcp_port = t, and these are the ports the transfers of the
\* round are given.
C12_OfferRoundTrip ==
    /\ \A d \in offer_net :
           /\ DLen(d) = 9
           /\ d.fill = 0
           /\ UnpackOffer(d) = [magic_cookie |-> magic_cookie,
                                msg_type |-> 2,
                                udp_port |-> ports[1],
                                tcp_port |-> ports[2]]
    /\ main_pc \in {"run_speed_test", "join"} => data \in offer_net
    /\ \A k \in DOMAIN tcp_threads : tcp_threads[k].server_port = ports[2]
    /\ \A k \in DOMAIN udp_threads : udp_threads[k].server_port = ports[1]

C12_Witness ==
    /\ ports = <<256, 65535>>
    /\ main_pc = "join"
    /\ Len(tcp_threads) = 1 /\ tcp_threads[1].server_port = 65535
    /\ Len(udp_threads) = 1 /\ udp_threads[1].server_port = 256
    /\ tcp_conn[1].open
    /\ udp_handlers[1].pc = "done" /\ udp_handlers[1].sent = 1

\* C13: the aggregation after the join raises nothing, whatever records the
\* round left: without a TCP (UDP) duration the TCP (UDP) figures are not
\* computed, with one they are computed without a division by zero, and a
\* loss rate that is reported lies between 0% and 100%.
C13_AggregationSafe ==
    [][ (main_pc = "join" /\ main_pc' = "loop") =>
            /\ ~report'.error
            /\ report' = PrintStatistics(statistics, file_size)
            /\ statistics.tcp_times = <<>> =>
                   (report'.avg_tcp = NoQuot /\ report'.tcp_speed = NoQuot)
            /\ statistics.tcp_times # <<>> =>
                   (report'.avg_tcp.ok /\ report'.tcp_speed.ok)
            /\ statistics.udp_times = <<>> =>
                   (report'.avg_udp = NoQuot /\ report'.loss_rate = NoQuot)
            /\ statistics.udp_times # <<>> =>
                   /\ report'.avg_udp.ok
                   /\ report'.loss_rate.ok
                   /\ report'.loss_rate.den > 0
                   /\ 0 <= report'.loss_rate.num
                   /\ report'.loss_rate.num <= 100 * report'.loss_rate.den
      ]_vars

\* a round of two UDP transfers and no TCP transfer: the TCP figures are
\* skipped and a loss rate is reported
C13_Witness ==
    /\ main_pc = "loop" /\ round = 1
    /\ statistics.tcp_times = <<>>
    /\ Len(statistics.udp_times) = 2
    /\ statistics.udp_packets_lost = 1
    /\ report.avg_tcp = NoQuot
    /\ report.loss_rate.ok
    /\ ~report.error

\* C14: the server's UDP socket is used by the task that created it (the main
\* thread) and by no other, and never by two tasks at a time.
C14_SocketsNotShared ==
    /\ UdpSocketUsers \subseteq {<<"main", 0>>}
    /\ Cardinality(UdpSocketUsers) <= 1

\* C15: while the server serves, the dispatcher can take every pending
\* datagram and every pending connection at once, whatever the handlers
\* already started are doing; and a handler starts only by a step of the
\* dispatcher that starts this one handler, for a connection it accepts or for
\* a datagram it takes off the socket and hands to the handler.
C15_DispatcherNeverBlocks ==
    /\ [](\A k \in DOMAIN tcp_handlers :
              (srv_pc = "serving" /\ srv_sockets = "open"
               /\ tcp_conn[k].open /\ tcp_handlers[k].pc = "idle")
              => ENABLED ServerAccept(k))
    /\ [](\A k \in DOMAIN udp_handlers : \A d \in udp_req[k] :
              (srv_pc = "serving" /\ srv_sockets = "open"
               /\ udp_handlers[k].pc \in {"idle", "done"})
              => ENABLED ServerDispatchUdp(k, d))
    /\ [][ /\ \A k \in DOMAIN tcp_handlers :
                  (k \in DOMAIN tcp_handlers' /\ tcp_handlers'[k].pc = "read"
                   /\ tcp_handlers[k].pc # "read")
                  => /\ tcp_handlers[k].pc = "idle"
                     /\ tcp_conn[k].open
                     /\ srv_pc = "serving"
                     /\ \A j \in DOMAIN tcp_handlers \ {k} :
                            tcp_handlers'[j] = tcp_handlers[j]
                     /\ udp_handlers' = udp_handlers
           /\ \A k \in DOMAIN udp_handlers :
                  (k \in DOMAIN udp_handlers' /\ udp_handlers'[k].pc = "unpack"
                   /\ udp_handlers[k].pc # "unpack")
                  => /\ srv_pc = "serving"
                     /\ udp_handlers'[k].data \in udp_req[k]
                     /\ udp_req'[k] = udp_req[k] \ {udp_handlers'[k].data}
                     /\ \A j \in DOMAIN udp_handlers \ {k} :
                            udp_handlers'[j] = udp_handlers[j]
                     /\ tcp_handlers' = tcp_handlers
         ]_vars

\* a connection was accepted and a datagram taken while the handler of the
\* other was in its sending loop
C15_Witness ==
    /\ srv_pc = "serving"
    /\ Len(tcp_handlers) = 1 /\ Len(udp_handlers) = 1
    /\ tcp_handlers[1].pc = "send" /\ tcp_handlers[1].remaining = 1025
    /\ udp_handlers[1].pc = "send" /\ udp_handlers[1].i = 1

\* C16: once stop() has set self.running to False, the dispatcher starts no
\* further handler and leaves its loop, every UDP handler sends at most one
\* more segment, every TCP handler at most one more chunk and the broadcaster
\* at most one more offer, all of them end, and the server's UDP and TCP
\* sockets end up closed.
C16_ShutdownObserved ==
    /\ [](/\ \A k \in DOMAIN udp_handlers : udp_handlers[k].after_stop <= 1
          /\ \A k \in DOMAIN tcp_handlers : tcp_handlers[k].after_stop <= 1
          /\ broadcast.after_stop <= 1
          /\ srv_pc \in {"stopped", "exited"} =>
                 (srv_sockets = "closed" /\ ~srv_running))
    /\ [][ ~srv_running =>
               /\ \A k \in DOMAIN tcp_handlers \cap DOMAIN tcp_handlers' :
                      tcp_handlers[k].pc = "idle" => tcp_handlers'[k].pc = "idle"
               /\ \A k \in DOMAIN udp_handlers \cap DOMAIN udp_handlers' :
                      udp_handlers[k].pc \in {"idle", "done"} =>
                          udp_handlers'[k].pc = udp_handlers[k].pc
         ]_vars
    /\ (srv_pc = "stopping") ~>
           (/\ srv_pc = "exited"
            /\ srv_sockets = "closed"
            /\ broadcast.pc = "done"
            /\ \A k \in DOMAIN tcp_handlers : tcp_handlers[k].pc \in {"idle", "done"}
            /\ \A k \in DOMAIN udp_handlers : udp_handlers[k].pc \in {"idle", "done"})

\* the server was stopped in the middle of a UDP transfer: the handler sent
\* one more segment and ended before the last, the broadcaster sent one more
\* offer, the dispatcher returned
C16_Witness ==
    /\ srv_pc = "exited" /\ srv_sockets = "closed"
    /\ broadcast.pc = "done" /\ broadcast.after_stop = 1
    /\ Len(udp_handlers) = 1
    /\ udp_handlers[1].pc = "done"
    /\ udp_handlers[1].after_stop = 1
    /\ udp_handlers[1].i = 2 /\ udp_handlers[1].total_segments = 3

\* the transfers of the round that ended without an exception and computed a
\* result
\* (client.py:185-199, 262-277)
TcpRecorded == {k \in DOMAIN tcp_threads : TcpCompleted(k)}
UdpRecorded == {k \in DOMAIN udp_threads :
                    /\ udp_threads[k].pc = "done"
                    /\ ~udp_threads[k].error
                    /\ Truthy(udp_threads[k].total_segments)}

\* C17: in the first round, for as long as its transfers exist, a transfer that ended by an exception (a timeout of
\* the TCP wait, a refused connection, a fault while computing the result) has
\* added no duration; the durations recorded are exactly those of the
\* transfers that completed; the step in which a transfer fails changes
\* neither the statistics nor any other transfer; and once all transfers have
\* ended _run_speed_test returns normally, with the state back at
\* LOOKING_FOR_SERVER.
C17_FaultIsLocal ==
    /\ []((round = 1 /\ Len(tcp_threads) + Len(udp_threads) > 0) =>
            /\ Len(statistics.tcp_times) = Cardinality(TcpRecorded)
            /\ \A k \in TcpRecorded :
                   \E n \in DOMAIN statistics.tcp_times :
                       statistics.tcp_times[n] = tcp_threads[k].transfer_time
            /\ Len(statistics.udp_times) = Cardinality(UdpRecorded)
            /\ \A k \in UdpRecorded :
                   \E n \in DOMAIN statistics.udp_times :
                       statistics.udp_times[n] = udp_threads[k].transfer_time
            /\ (main_pc = "join" /\ AllJoined) => ENABLED JoinAndReport
            /\ main_pc = "loop" =>
                   (state = "LOOKING_FOR_SERVER" /\ ~report.error))
    /\ [][ /\ \A k \in DOMAIN tcp_threads \cap DOMAIN tcp_threads' :
                  (tcp_threads'[k].error /\ ~tcp_threads[k].error) =>
                      /\ tcp_threads'[k].pc = "done"
                      /\ statistics' = statistics
                      /\ udp_threads' = udp_threads
                      /\ \A j \in DOMAIN tcp_threads \ {k} :
                             tcp_threads'[j] = tcp_threads[j]
           /\ \A k \in DOMAIN udp_threads \cap DOMAIN udp_threads' :
                  (udp_threads'[k].error /\ ~udp_threads[k].error) =>
                      /\ udp_threads'[k].pc = "done"
                      /\ statistics' = statistics
                      /\ tcp_threads' = tcp_threads
                      /\ \A j \in DOMAIN udp_threads \ {k} :
                             udp_threads'[j] = udp_threads[j]
         ]_vars

\* the TCP transfer of the round failed, its UDP sibling completed and is the
\* only one recorded, and the round has returned
C17_Witness ==
    /\ round = 1 /\ main_pc = "loop" /\ state = "LOOKING_FOR_SERVER"
    /\ Len(tcp_threads) = 1 /\ tcp_threads[1].error
    /\ Len(udp_threads) = 1 /\ UdpRecorded = {1}
    /\ statistics.tcp_times = <<>>
    /\ statistics.udp_times = <<udp_threads[1].transfer_time>>

\* what start() leaves behind when bind() or listen() raised in the server:
\* not running, the sockets it created closed, no broadcaster, no offer sent,
\* no handler started
ServerStartupFaultHandled ==
    srv_pc = "start_failed" =>
        /\ ~srv_running
        /\ srv_sockets = "closed"
        /\ broadcast = NoBroadcast
        /\ offer_net = {}
        /\ udp_handlers = <<>> /\ tcp_handlers = <<>>

\* C18: after a bind or listen fault at startup the component has stopped
\* with its sockets closed and neither serves nor broadcasts (server), and
\* the client whose discovery socket could not be bound is stopped, its next
\* step being the exit that closes the socket: it does not ask for a file
\* size and set the socket up again.
C18_StartupFaultStops ==
    /\ []ServerStartupFaultHandled
    /\ [](udp_socket = "unbound" => ~running)
    /\ [][udp_socket = "unbound" =>
              /\ udp_socket' \in {"unbound", "closed"}
              /\ main_pc' \in {"loop", "exited"}]_vars

\* a UDP transfer that ended without having stored any payload, and one that
\* ended having stored every segment announced
UdpNoData(k) ==
    /\ udp_threads[k].pc = "done"
    /\ udp_threads[k].received_segments = {}
UdpZeroLoss(k) ==
    /\ udp_threads[k].pc = "done"
    /\ ~udp_threads[k].error
    /\ udp_threads[k].received_segments # {}
    /\ Cardinality(udp_threads[k].received_segments) = udp_threads[k].total_segments
\* what a UDP transfer computed at its end
UdpOutcome(k) ==
    <<udp_threads[k].packets_lost, udp_threads[k].loss_rate, udp_threads[k].speed>>

\* C19: a UDP transfer that ends without a valid payload left its loop by the
\* timeout, computed no loss count, no loss rate and no speed, raised nothing,
\* and its last step left the statistics (durations, lost counter) as they
\* were; a transfer that ends with every segment has a loss count of 0 and a
\* computed loss rate, so the two outcomes differ.
C19_NoDataDistinct ==
    /\ [](\A k \in DOMAIN udp_threads :
            /\ UdpNoData(k) =>
                  /\ udp_threads[k].exit = "timeout"
                  /\ udp_threads[k].total_segments = None
                  /\ UdpOutcome(k) = <<None, NoQuot, NoQuot>>
                  /\ ~udp_threads[k].error
            /\ UdpZeroLoss(k) =>
                  /\ udp_threads[k].packets_lost = 0
                  /\ udp_threads[k].loss_rate.ok
                  /\ \A j \in DOMAIN udp_threads :
                         UdpNoData(j) => UdpOutcome(j) # UdpOutcome(k))
    /\ [][\A k \in DOMAIN udp_threads \cap DOMAIN udp_threads' :
              (udp_threads[k].pc = "finish" /\ udp_threads'[k].pc = "done"
                  /\ udp_threads[k].received_segments = {})
              => statistics' = statistics]_vars

\* of two transfers of a round that has returned, one ended without data and
\* the other with every segment and no loss; only the second is recorded
C19_Witness ==
    /\ round = 1 /\ main_pc = "loop"
    /\ Len(udp_threads) = 2
    /\ UdpNoData(1)
    /\ UdpZeroLoss(2)
    /\ Len(statistics.udp_times) = 1
    /\ statistics.udp_packets_lost = 0

\* over the successful UDP transfers of the round: the segments announced, and
\* the segments announced that were not received
RoundSegmentsTotal ==
    Sum([k \in DOMAIN udp_threads |->
            IF k \in UdpRecorded THEN udp_threads[k].total_segments ELSE 0])
RoundSegmentsLost ==
    Sum([k \in DOMAIN udp_threads |->
            IF k \in UdpRecorded
            THEN udp_threads[k].total_segments
                     - Cardinality(udp_threads[k].received_segments)
            ELSE 0])

RoundSegmentsReceived ==
    Sum([k \in DOMAIN udp_threads |->
            Cardinality(udp_threads[k].received_segments)])

\* C20: when the first round has returned with at least one successful UDP
\* transfer and a report, the loss rate reported is
\* 100 * (sum of total_segments - segments received) / (sum of total_segments)
\* over the round's successful UDP transfers.  Stated for the rounds in which
\* every UDP transfer was successful and the received counter is exact (no
\* datagram was duplicated, no update of the counter was lost), so that only
\* the lost counter is in question.
C20_LossRateAcrossTransfers ==
    (/\ round = 1 /\ main_pc = "loop" /\ state = "LOOKING_FOR_SERVER"
     /\ UdpRecorded # {}
     /\ UdpRecorded = DOMAIN udp_threads
     /\ ~report.error
     /\ \A k \in DOMAIN udp_threads : udp_threads[k].dups = 0
     /\ statistics.udp_packets_received = RoundSegmentsReceived)
    => /\ report.loss_rate.ok
       /\ report.loss_rate.num * RoundSegmentsTotal
              = 100 * RoundSegmentsLost * report.loss_rate.den

\* C21: however the bytes of the request line reach the handler's recv, the
\* size the handler has parsed when it leaves the read is the size the client
\* asked for, and a handler that ended while the server stayed running has
\* sent exactly that many bytes.
C21_WholeSizeLineRead ==
    \A k \in DOMAIN tcp_handlers :
        /\ tcp_handlers[k].pc \in {"send", "close", "done"} =>
               tcp_handlers[k].file_size = file_size
        /\ (srv_running /\ tcp_handlers[k].pc = "done") =>
               tcp_handlers[k].sent = file_size

\* C22: the handler of a request of file size F announces
\* ceil(F / 1024) segments; each of its sends has the next index, starting at
\* 0 and below total_segments, carries that total_segments and 1 to 1024
\* payload bytes; and a handler that ended with the server still running and
\* its socket open has sent every index once and F payload bytes in all.
C22_SegmentsSent ==
    /\ [](\A k \in DOMAIN udp_handlers :
            udp_handlers[k].pc \in {"send", "done"} =>
                /\ udp_handlers[k].file_size = file_size
                /\ udp_handlers[k].total_segments = Ceil(file_size, segment_size)
                /\ udp_handlers[k].i <= udp_handlers[k].total_segments
                /\ udp_handlers[k].sent <= file_size
                /\ (udp_handlers[k].pc = "done" /\ srv_running /\ srv_sockets = "open") =>
                       /\ udp_handlers[k].i = udp_handlers[k].total_segments
                       /\ udp_handlers[k].sent = file_size)
    /\ [][\A k \in DOMAIN udp_handlers \cap DOMAIN udp_handlers' :
              LET h == udp_handlers[k]
                  g == udp_handlers'[k]
              IN /\ (h.pc = "send" /\ g.i # h.i) =>
                        /\ g.i = h.i + 1
                        /\ h.i < h.total_segments
                        /\ g.total_segments = h.total_segments
                        /\ g.sent - h.sent \in 1..segment_size
                 /\ k \in DOMAIN udp_resp \cap DOMAIN udp_resp' =>
                        \A d \in udp_resp'[k] \ udp_resp[k] :
                            /\ h.pc = "send" /\ g.i = h.i + 1
                            /\ ValidPayload(d)
                            /\ UnpackPayloadHeader(d).total_segs = h.total_segments
                            /\ UnpackPayloadHeader(d).current_seg = h.i
                            /\ d.fill = g.sent - h.sent
                            /\ DLen(d) = payload_header_size + d.fill
         ]_vars

\* an uninterrupted handler has sent the three segments of a file of 2049
\* bytes, the last of them holding one byte
C22_Witness ==
    /\ file_size = 2049
    /\ Len(udp_handlers) = 1
    /\ udp_handlers[1].pc = "done"
    /\ srv_running /\ srv_sockets = "open"
    /\ udp_handlers[1].i = 3
    /\ udp_handlers[1].sent = 2049
    /\ \E d \in udp_resp[1] : UnpackPayloadHeader(d).current_seg = 2 /\ d.fill = 1

\* C23: no UDP transfer ends by an exception while computing its result,
\* whatever the elapsed duration and total_segments, and a transfer of the
\* first round that ended having received segments has its duration in the
\* statistics.
C23_UdpResultNoFault ==
    \A k \in DOMAIN udp_threads :
        /\ ~udp_threads[k].error
        /\ (round = 1 /\ udp_threads[k].pc = "done"
               /\ udp_threads[k].received_segments # {}) =>
               \E n \in DOMAIN statistics.udp_times :
                   statistics.udp_times[n] = udp_threads[k].transfer_time

\* C24: once the transfers of a round have been started, every transfer
\* thread ends, the join returns and the state is LOOKING_FOR_SERVER again,
\* whatever arrives at the transfers' sockets.
C24_RoundCompletes ==
    (main_pc = "join") ~>
        (main_pc = "loop" /\ AllJoined /\ state = "LOOKING_FOR_SERVER")

====
